---- MODULE Spec2Model ----
(***************************************************************************)
(* A model of src/s3_minio.py: the S3Minio gateway (upload, delete,        *)
(* get_url) over one bucket and the local staging directory temp/media,    *)
(* and the generate_image_filename helper.                                 *)
(*                                                                         *)
(* The bucket is the set of object keys it holds.  The staging area is a   *)
(* set of file paths and a set of directory paths; a path is the sequence  *)
(* of its segments.  The outcome of every SDK and filesystem call that can *)
(* fail for a reason outside the program (permission, connection) is an    *)
(* input of the call, drawn from a small set.                              *)
(***************************************************************************)
EXTENDS Integers, Sequences, FiniteSets, TLC

VARIABLES bucket, files, dirs, last, deleted, th, crashed, fn

vars == <<bucket, files, dirs, last, deleted, th, crashed, fn>>

(***************************************************************************)
(* Bounds of the model.                                                    *)
(***************************************************************************)
\* The longest argument list handed to upload(*args) and delete(*args).
MaxArgs == 2

\* The object keys the calls are made with: one at the top of the staging
\* directory and two that share the parent directory d.
Keys == {<<"a">>, <<"d", "a">>, <<"d", "b">>}

\* The argument lists: up to MaxArgs keys, no key twice.
ArgLists ==
  {a \in UNION {[1..n -> Keys] : n \in 0..MaxArgs} :
     \A i, j \in DOMAIN a : i # j => a[i] # a[j]}

(***************************************************************************)
(* Values.                                                                 *)
(***************************************************************************)
\* self.s3_bucket_name
s3_bucket_name == "bucket"

\* ExpiresIn=3600
ExpiresIn == 3600

PyTrue == <<"True">>
PyNone == <<"None">>
NoReturn == <<>>

\* An exception is the chain of its layers, the outermost first: the tail
\* of the chain is the __cause__ attached by "raise ... from exc".
NoExc == <<>>

Exc(type, msg) == <<[type |-> type, msg |-> msg]>>

\* raise ValueError(f"{msg}: {exc}") from exc
ValueError(msg, exc) == <<[type |-> "ValueError", msg |-> msg]>> \o exc

\* What the SDK raises for an outcome other than "ok".
SdkError(o) ==
  CASE o = "403" -> Exc("ClientError", "403")
    [] o = "404" -> Exc("ClientError", "404")
    [] o = "unreachable" -> Exc("EndpointConnectionError", "")
    [] o = "nocredentials" -> Exc("NoCredentialsError", "")
    [] OTHER -> NoExc

\* The outcomes of a request to the backend that the program does not decide.
SdkOutcomes == {"ok", "403", "unreachable"}

\* generate_presigned_url signs locally: it fails only for want of credentials.
SignOutcomes == {"ok", "nocredentials"}

\* The outcomes of os.remove on a file that exists.
FsOutcomes == {"ok", "denied"}

\* The outcomes a call draws: upload asks the backend and the filesystem,
\* delete the backend, get_url the backend and the signer.
UploadOutcomes == [sdk : SdkOutcomes, sign : {"ok"}, fs : FsOutcomes]
DeleteOutcomes == [sdk : SdkOutcomes, sign : {"ok"}, fs : {"ok"}]
GetUrlOutcomes == [sdk : SdkOutcomes, sign : SignOutcomes, fs : {"ok"}]

(***************************************************************************)
(* The local filesystem.                                                   *)
(***************************************************************************)
StagingRoot == <<"temp", "media">>

\* file_direct = f"temp/media/{path}"
file_direct(path) == StagingRoot \o path

\* os.path.dirname
dirname(p) == SubSeq(p, 1, Len(p) - 1)

IsPrefix(d, p) == Len(d) <= Len(p) /\ SubSeq(p, 1, Len(d)) = d

\* The directories a staged file needs: temp/media and all below it.
Ancestors(p) == {SubSeq(p, 1, n) : n \in Len(StagingRoot)..(Len(p) - 1)}

AllFiles == {file_direct(k) : k \in Keys}
AllDirs == UNION {Ancestors(f) : f \in AllFiles}

\* os.path.exists
os_path_exists(w, p) == p \in w.files \cup w.dirs

\* os.listdir of a directory that exists: its entries
os_listdir(w, d) == {p \in w.files \cup w.dirs : Len(p) = Len(d) + 1 /\ dirname(p) = d}

\* os.remove(file_direct)
os_remove(w, f, o) ==
  IF f \notin w.files THEN [w |-> w, exc |-> Exc("FileNotFoundError", "")]
  ELSE IF o # "ok" THEN [w |-> w, exc |-> Exc("PermissionError", "")]
  ELSE [w |-> [w EXCEPT !.files = @ \ {f}], exc |-> NoExc]

\* shutil.rmtree(dir_local): the directory and everything below it
shutil_rmtree(w, d) ==
  IF d \notin w.dirs THEN [w |-> w, exc |-> Exc("FileNotFoundError", "")]
  ELSE [w |-> [w EXCEPT !.files = {p \in @ : ~IsPrefix(d, p)},
                        !.dirs = {p \in @ : ~IsPrefix(d, p)}],
        exc |-> NoExc]

(***************************************************************************)
(* The SDK calls the gateway makes, on the bucket as a set of keys.        *)
(***************************************************************************)
Call(name, key, out) == [fn |-> name, key |-> key, out |-> out]

\* self.s3.upload_file(file_direct, self.s3_bucket_name, path)
s3_upload_file(w, f, key, o) ==
  IF f \notin w.files
  THEN [w |-> w, exc |-> Exc("FileNotFoundError", ""), call |-> Call("upload_file", key, "nofile")]
  ELSE IF o # "ok"
  THEN [w |-> w, exc |-> SdkError(o), call |-> Call("upload_file", key, o)]
  ELSE [w |-> [w EXCEPT !.bucket = @ \cup {key}], exc |-> NoExc,
        call |-> Call("upload_file", key, "ok")]

\* self.s3.delete_object(Bucket=..., Key=path): S3 and MinIO answer 204 No
\* Content whether or not the key exists.
s3_delete_object(w, key, o) ==
  IF o # "ok"
  THEN [w |-> w, exc |-> SdkError(o), call |-> Call("delete_object", key, o)]
  ELSE [w |-> [w EXCEPT !.bucket = @ \ {key}], exc |-> NoExc,
        call |-> Call("delete_object", key, "ok")]

\* self.s3.head_object(Bucket=bucket_name, Key=path): a ClientError 404 for a
\* key the bucket does not hold.
s3_head_object(w, key, o) ==
  IF o # "ok"
  THEN [exc |-> SdkError(o), call |-> Call("head_object", key, o)]
  ELSE IF key \notin w.bucket
  THEN [exc |-> SdkError("404"), call |-> Call("head_object", key, "404")]
  ELSE [exc |-> NoExc, call |-> Call("head_object", key, "ok")]

\* self.s3.generate_presigned_url('get_object', Params={...}, ExpiresIn=3600):
\* the URL is kept as what it is signed for.
s3_generate_presigned_url(bucket_name, key, expires, o) ==
  IF o # "ok"
  THEN [url |-> NoReturn, exc |-> SdkError(o), call |-> Call("generate_presigned_url", key, o)]
  ELSE [url |-> <<"url", bucket_name, key, expires>>, exc |-> NoExc,
        call |-> Call("generate_presigned_url", key, "ok")]

\* self.s3.exceptions.ClientError
IsClientError(exc) == exc # NoExc /\ exc[1].type = "ClientError"

(***************************************************************************)
(* The gateway's methods: each takes the world w = [bucket, files, dirs],  *)
(* its arguments and the outcomes o, and gives the world afterwards, what  *)
(* it returned or raised, and the SDK calls it made.                       *)
(***************************************************************************)
Result(w, ret, exc, calls) == [w |-> w, ret |-> ret, exc |-> exc, calls |-> calls]

\* A variant of upload_cleanup that removes the directory without looking
\* whether it is empty.
upload_cleanup_unchecked(w, f, o) ==
  LET rm == os_remove(w, f, o)
      dir_local == dirname(f)
  IN IF rm.exc # NoExc THEN rm
     ELSE IF os_path_exists(rm.w, dir_local)
     THEN shutil_rmtree(rm.w, dir_local)
     ELSE rm

\* Lines 87-91: remove the staged file, then its directory if that is empty.
upload_cleanup(w, f, o) ==
  LET rm == os_remove(w, f, o)
      dir_local == dirname(f)
  IN IF rm.exc # NoExc THEN rm
     ELSE IF os_path_exists(rm.w, dir_local) /\ os_listdir(rm.w, dir_local) = {}
     THEN shutil_rmtree(rm.w, dir_local)
     ELSE rm

\* A variant of upload_body that answers False for a failed upload_file, as
\* the docstring has it, where the code raises.
upload_body_false(w, path, o) ==
  LET f == file_direct(path)
      up == s3_upload_file(w, f, path, o.sdk)
  IN IF up.exc # NoExc
     THEN Result(up.w, <<"False">>, NoExc, <<up.call>>)
     ELSE LET cl == upload_cleanup(up.w, f, o.fs)
          IN IF cl.exc # NoExc
             THEN Result(cl.w, NoReturn, ValueError("Upload Error", cl.exc), <<up.call>>)
             ELSE Result(cl.w, PyTrue, NoExc, <<up.call>>)

\* One pass of the loop body of upload, lines 69-96.
upload_body(w, path, o) ==
  LET f == file_direct(path)
      up == s3_upload_file(w, f, path, o.sdk)
  IN IF up.exc # NoExc
     THEN Result(up.w, NoReturn,
                 ValueError("Upload Error", ValueError("Upload Error", up.exc)),
                 <<up.call>>)
     ELSE LET cl == upload_cleanup(up.w, f, o.fs)
          IN IF cl.exc # NoExc
             THEN Result(cl.w, NoReturn, ValueError("Upload Error", cl.exc), <<up.call>>)
             ELSE Result(cl.w, PyTrue, NoExc, <<up.call>>)

\* A variant of upload whose return sits after the loop: every key is
\* uploaded, up to the first failure.
RECURSIVE upload_all(_, _, _)
upload_all(w, args, o) ==
  IF args = <<>> THEN Result(w, PyNone, NoExc, <<>>)
  ELSE LET r == upload_body(w, Head(args), o)
       IN IF r.exc # NoExc \/ Len(args) = 1 THEN r
          ELSE LET rest == upload_all(r.w, Tail(args), o)
               IN Result(rest.w, rest.ret, rest.exc, r.calls \o rest.calls)

\* upload(self, *args): the loop returns or raises in its first pass; with
\* no argument the loop body never runs and the method returns None.
upload(w, args, o) ==
  IF args = <<>> THEN Result(w, PyNone, NoExc, <<>>)
  ELSE upload_body(w, Head(args), o)

\* A variant of delete_body whose return precedes the delete_object call.
delete_body_early(w, path, o) == Result(w, PyTrue, NoExc, <<>>)

\* A variant of delete_body that probes the key first and raises for a key
\* the bucket does not hold.
delete_body_strict(w, path, o) ==
  LET del == s3_delete_object(w, path, o.sdk)
  IN IF path \notin w.bucket
     THEN Result(w, NoReturn, ValueError("Delete Error", SdkError("404")),
                 <<Call("head_object", path, "404")>>)
     ELSE IF del.exc # NoExc
     THEN Result(del.w, NoReturn, ValueError("Delete Error", del.exc), <<del.call>>)
     ELSE Result(del.w, PyTrue, NoExc, <<del.call>>)

\* One pass of the loop body of delete, lines 107-114.
delete_body(w, path, o) ==
  LET del == s3_delete_object(w, path, o.sdk)
  IN IF del.exc # NoExc
     THEN Result(del.w, NoReturn, ValueError("Delete Error", del.exc), <<del.call>>)
     ELSE Result(del.w, PyTrue, NoExc, <<del.call>>)

\* delete(self, *args)
delete(w, args, o) ==
  IF args = <<>> THEN Result(w, PyNone, NoExc, <<>>)
  ELSE delete_body(w, Head(args), o)

\* A variant of get_url without the head_object probe.
get_url_unprobed(w, path, o) ==
  LET gen == s3_generate_presigned_url(s3_bucket_name, path, ExpiresIn, o.sign)
  IN IF gen.exc # NoExc
     THEN IF IsClientError(gen.exc)
          THEN Result(w, PyNone, NoExc, <<gen.call>>)
          ELSE Result(w, NoReturn, gen.exc, <<gen.call>>)
     ELSE Result(w, gen.url, NoExc, <<gen.call>>)

\* get_url(self, path)
get_url(w, path, o) ==
  LET head == s3_head_object(w, path, o.sdk)
      gen == s3_generate_presigned_url(s3_bucket_name, path, ExpiresIn, o.sign)
  IN IF head.exc # NoExc
     THEN IF IsClientError(head.exc)
          THEN Result(w, PyNone, NoExc, <<head.call>>)
          ELSE Result(w, NoReturn, head.exc, <<head.call>>)
     ELSE IF gen.exc # NoExc
     THEN IF IsClientError(gen.exc)
          THEN Result(w, PyNone, NoExc, <<head.call, gen.call>>)
          ELSE Result(w, NoReturn, gen.exc, <<head.call, gen.call>>)
     ELSE Result(w, gen.url, NoExc, <<head.call, gen.call>>)

(***************************************************************************)
(* The state machine of calls made one after the other.                    *)
(***************************************************************************)
World == [bucket |-> bucket, files |-> files, dirs |-> dirs]

\* The event the variable last holds: the call, its result and the world
\* it started from.
Event(op, args, r, w) ==
  [op |-> op, args |-> args, ret |-> r.ret, exc |-> r.exc, calls |-> r.calls, pre |-> w]

\* The staging areas a caller can have left: every file lies in a directory
\* that exists, every directory but temp/media in its parent.
StagingAreas ==
  {s \in [files : SUBSET AllFiles, dirs : SUBSET AllDirs] :
     /\ \A f \in s.files : dirname(f) \in s.dirs
     /\ \A d \in s.dirs : d = StagingRoot \/ dirname(d) \in s.dirs}

NoThreads == [t \in {} |-> 0]

Init ==
  /\ bucket \in SUBSET Keys
  /\ \E s \in StagingAreas : files = s.files /\ dirs = s.dirs
  /\ last = [op |-> "none", args |-> <<>>, ret |-> NoReturn, exc |-> NoExc,
             calls |-> <<>>, pre |-> [bucket |-> {}, files |-> {}, dirs |-> {}]]
  /\ deleted = {}
  /\ th = NoThreads
  /\ crashed = FALSE
  /\ fn = <<>>

Apply(op, args, r) ==
  /\ bucket' = r.w.bucket
  /\ files' = r.w.files
  /\ dirs' = r.w.dirs
  /\ last' = Event(op, args, r, World)

\* deleted: the keys the bucket held when a delete that returned True was
\* asked first to delete them, and that no upload has been asked first to
\* upload since.
Upload ==
  \E args \in ArgLists, o \in UploadOutcomes :
    LET r == upload(World, args, o)
    IN /\ Apply("upload", args, r)
       /\ deleted' = IF args = <<>> THEN deleted ELSE deleted \ {args[1]}
       /\ UNCHANGED <<th, crashed, fn>>

Delete ==
  \E args \in ArgLists, o \in DeleteOutcomes :
    LET r == delete(World, args, o)
    IN /\ Apply("delete", args, r)
       /\ deleted' = IF r.ret = PyTrue /\ args # <<>> /\ args[1] \in bucket
                      THEN deleted \cup {args[1]} ELSE deleted
       /\ UNCHANGED <<th, crashed, fn>>

GetUrl ==
  \E path \in Keys, o \in GetUrlOutcomes :
    LET r == get_url(World, path, o)
    IN /\ Apply("get_url", <<path>>, r)
       /\ UNCHANGED <<deleted, th, crashed, fn>>

\* The caller stages a file for a later upload under temp/media/<key>.
Stage ==
  \E k \in Keys :
    /\ file_direct(k) \notin files
    /\ files' = files \cup {file_direct(k)}
    /\ dirs' = dirs \cup Ancestors(file_direct(k))
    /\ last' = [op |-> "stage", args |-> <<k>>, ret |-> NoReturn, exc |-> NoExc,
                calls |-> <<>>, pre |-> World]
    /\ UNCHANGED <<bucket, deleted, th, crashed, fn>>

Next == Upload \/ Delete \/ GetUrl \/ Stage

Spec == Init /\ [][Next]_vars

(***************************************************************************)
(* The state machine of upload calls made at the same time (SpecSteps):    *)
(* each thread makes one call of upload with one key, statement by         *)
(* statement, on the bucket and staging area it shares with the other; the *)
(* process may crash between any two statements.  The calls are made on    *)
(* distinct keys.                                                          *)
(***************************************************************************)
Threads == {"t1", "t2"}

\* A thread's frame: where it stands in upload, its key, whether the print
\* of line 77 found the staging file, and what the call returned or raised.
Frame(pc, path, staged, ret, exc) ==
  [pc |-> pc, path |-> path, staged |-> staged, ret |-> ret, exc |-> exc]

Goto(t, pc) == th' = [th EXCEPT ![t].pc = pc]

\* return True
Return(t) == th' = [th EXCEPT ![t].pc = "done", ![t].ret = PyTrue]

\* except Exception as exc: raise ValueError(f"Upload Error: {exc}") from exc
Raise(t, exc) ==
  th' = [th EXCEPT ![t].pc = "done", ![t].exc = ValueError("Upload Error", exc)]

InitSteps ==
  /\ bucket \in SUBSET Keys
  /\ \E s \in StagingAreas : files = s.files /\ dirs = s.dirs
  /\ last = [op |-> "none", args |-> <<>>, ret |-> NoReturn, exc |-> NoExc,
             calls |-> <<>>, pre |-> [bucket |-> {}, files |-> {}, dirs |-> {}]]
  /\ deleted = {}
  /\ th = [t \in Threads |-> Frame("idle", <<>>, FALSE, NoReturn, NoExc)]
  /\ crashed = FALSE
  /\ fn = <<>>

\* upload(path) is entered: lines 68-80
T_Call(t) ==
  /\ ~crashed
  /\ th[t].pc = "idle"
  /\ \E k \in Keys :
       /\ \A u \in Threads \ {t} : th[u].path # k
       /\ th' = [th EXCEPT ![t] = Frame("upload_file", k,
                                        os_path_exists(World, file_direct(k)),
                                        NoReturn, NoExc)]
  /\ UNCHANGED <<bucket, files, dirs, last, deleted, crashed, fn>>

\* A variant of T_UploadFile whose inner handler drops the error and goes
\* on to the cleanup.
T_UploadFile_dropped(t) ==
  /\ ~crashed
  /\ th[t].pc = "upload_file"
  /\ \E o \in SdkOutcomes :
       LET up == s3_upload_file(World, file_direct(th[t].path), th[t].path, o)
       IN /\ bucket' = up.w.bucket
          /\ Goto(t, "remove")
  /\ UNCHANGED <<files, dirs, last, deleted, crashed, fn>>

\* lines 81-84
T_UploadFile(t) ==
  /\ ~crashed
  /\ th[t].pc = "upload_file"
  /\ \E o \in SdkOutcomes :
       LET up == s3_upload_file(World, file_direct(th[t].path), th[t].path, o)
       IN /\ bucket' = up.w.bucket
          /\ IF up.exc # NoExc
             THEN Raise(t, ValueError("Upload Error", up.exc))
             ELSE Goto(t, "remove")
  /\ UNCHANGED <<files, dirs, last, deleted, crashed, fn>>

\* line 87
T_Remove(t) ==
  /\ ~crashed
  /\ th[t].pc = "remove"
  /\ \E o \in FsOutcomes :
       LET rm == os_remove(World, file_direct(th[t].path), o)
       IN /\ files' = rm.w.files
          /\ IF rm.exc # NoExc THEN Raise(t, rm.exc) ELSE Goto(t, "exists")
  /\ UNCHANGED <<bucket, dirs, last, deleted, crashed, fn>>

\* lines 89-90: os.path.exists(dir_local)
T_Exists(t) ==
  /\ ~crashed
  /\ th[t].pc = "exists"
  /\ IF os_path_exists(World, dirname(file_direct(th[t].path)))
     THEN Goto(t, "listdir")
     ELSE Return(t)
  /\ UNCHANGED <<bucket, files, dirs, last, deleted, crashed, fn>>

\* line 90: not os.listdir(dir_local), which raises for a directory that
\* is no longer there
T_Listdir(t) ==
  /\ ~crashed
  /\ th[t].pc = "listdir"
  /\ LET dir_local == dirname(file_direct(th[t].path))
     IN IF dir_local \notin dirs
        THEN Raise(t, Exc("FileNotFoundError", ""))
        ELSE IF os_listdir(World, dir_local) = {}
        THEN Goto(t, "rmtree")
        ELSE Return(t)
  /\ UNCHANGED <<bucket, files, dirs, last, deleted, crashed, fn>>

\* lines 91-93
T_Rmtree(t) ==
  /\ ~crashed
  /\ th[t].pc = "rmtree"
  /\ LET rt == shutil_rmtree(World, dirname(file_direct(th[t].path)))
     IN /\ files' = rt.w.files
        /\ dirs' = rt.w.dirs
        /\ IF rt.exc # NoExc THEN Raise(t, rt.exc) ELSE Return(t)
  /\ UNCHANGED <<bucket, last, deleted, crashed, fn>>

\* The process stops while a call is under way.
Crash ==
  /\ ~crashed
  /\ \E t \in Threads : th[t].pc \notin {"idle", "done"}
  /\ crashed' = TRUE
  /\ UNCHANGED <<bucket, files, dirs, last, deleted, th, fn>>

NextSteps ==
  \/ \E t \in Threads : T_Call(t)
  \/ \E t \in Threads : T_UploadFile(t)
  \/ \E t \in Threads : T_Remove(t)
  \/ \E t \in Threads : T_Exists(t)
  \/ \E t \in Threads : T_Listdir(t)
  \/ \E t \in Threads : T_Rmtree(t)
  \/ Crash

SpecSteps == InitSteps /\ [][NextSteps]_vars

(***************************************************************************)
(* generate_image_filename (SpecFilename).  A string is the sequence of    *)
(* its characters.                                                         *)
(***************************************************************************)
\* The longest original filename tried.
MaxNameLen == 3

\* The distance between the values of random.randint that are tried, beside
\* its two ends.
RandStride == 3000

\* The characters original filenames are made of: a lower-case and an
\* upper-case letter, a digit, the dot, the space and a special character.
FilenameChars == {"a", "Z", "7", ".", " ", "#"}

Filenames == UNION {[1..n -> FilenameChars] : n \in 0..MaxNameLen}

\* The model instances: instance.__class__.__name__ and instance.created_at.
Instances ==
  {[class_name |-> <<"P", "o", "s", "t">>,
    created_at |-> [Y |-> 2024, m |-> 1, d |-> 2, H |-> 3, M |-> 4, S |-> 5]],
   [class_name |-> <<"A", "d">>,
    created_at |-> [Y |-> 1999, m |-> 12, d |-> 31, H |-> 23, M |-> 59, S |-> 59]]}

Digits == <<"0", "1", "2", "3", "4", "5", "6", "7", "8", "9">>

Upper == {"A", "B", "C", "D", "E", "F", "G", "H", "I", "J", "K", "L", "M",
          "N", "O", "P", "Q", "R", "S", "T", "U", "V", "W", "X", "Y", "Z"}

Lower == {"a", "b", "c", "d", "e", "f", "g", "h", "i", "j", "k", "l", "m",
          "n", "o", "p", "q", "r", "s", "t", "u", "v", "w", "x", "y", "z"}

DigitChars == {Digits[i] : i \in DOMAIN Digits}

\* The characters r'[^A-Za-z0-9._-]' lets through.
ValidChars == Upper \cup Lower \cup DigitChars \cup {".", "_", "-"}

\* The characters str.strip() takes off the ends.
Whitespace == {" ", "\t", "\n", "\r"}

\* str(n) of a number n >= 0, as the f-string formats random_number
RECURSIVE str(_)
str(n) == IF n < 10 THEN <<Digits[n + 1]>> ELSE str(n \div 10) \o <<Digits[(n % 10) + 1]>>

\* A strftime field padded with zeros to its width.
RECURSIVE zfill(_, _)
zfill(s, width) == IF Len(s) >= width THEN s ELSE zfill(<<"0">> \o s, width)

\* instance.created_at.strftime("%Y-%m-%d-%H-%M-%S-%F"), with %F the ISO
\* date %Y-%m-%d it is in the C library
strftime(dt) ==
  LET Y == zfill(str(dt.Y), 4)
      m == zfill(str(dt.m), 2)
      d == zfill(str(dt.d), 2)
      H == zfill(str(dt.H), 2)
      M == zfill(str(dt.M), 2)
      S == zfill(str(dt.S), 2)
      h == <<"-">>
  IN Y \o h \o m \o h \o d \o h \o H \o h \o M \o h \o S \o h \o Y \o h \o m \o h \o d

\* random.randint(a, b): a number of a..b, both ends among them
randint(a, b) == {a, b} \cup {n \in a..b : n % RandStride = a % RandStride}

\* filename.split(".")[-1]: what follows the last dot, the whole string
\* when it holds none
RECURSIVE split_last(_)
split_last(s) ==
  IF s = <<>> \/ s[Len(s)] = "." THEN <<>>
  ELSE split_last(SubSeq(s, 1, Len(s) - 1)) \o <<s[Len(s)]>>

RECURSIVE lstrip(_)
lstrip(s) == IF s # <<>> /\ Head(s) \in Whitespace THEN lstrip(Tail(s)) ELSE s

RECURSIVE rstrip(_)
rstrip(s) ==
  IF s # <<>> /\ s[Len(s)] \in Whitespace THEN rstrip(SubSeq(s, 1, Len(s) - 1)) ELSE s

\* str.strip()
strip(s) == rstrip(lstrip(s))

\* str.replace(old, new) for single characters
replace(s, old, new) == [i \in DOMAIN s |-> IF s[i] = old THEN new ELSE s[i]]

IsValidChar(c) == c \in ValidChars

\* re.sub(r'[^A-Za-z0-9._-]', '', filename)
re_sub_invalid(s) == SelectSeq(s, IsValidChar)

\* A variant of get_valid_filename without the re.sub.
get_valid_filename_unfiltered(filename) == replace(strip(filename), " ", "_")

\* get_valid_filename(filename), lines 185-190
get_valid_filename(filename) == re_sub_invalid(replace(strip(filename), " ", "_"))

\* generate_image_filename(instance, filename), with the number
\* random.randint gave
generate_image_filename(instance, filename, random_number) ==
  LET file_ext == split_last(filename)
      class_name == instance.class_name
      timestamped_name == strftime(instance.created_at)
      valid_filename ==
        get_valid_filename(timestamped_name \o <<"-">> \o str(random_number)
                           \o <<".">> \o file_ext)
  IN class_name \o <<"/">> \o timestamped_name \o <<"/">> \o valid_filename

InitFilename ==
  /\ bucket = {}
  /\ files = {}
  /\ dirs = {}
  /\ last = [op |-> "none", args |-> <<>>, ret |-> NoReturn, exc |-> NoExc,
             calls |-> <<>>, pre |-> [bucket |-> {}, files |-> {}, dirs |-> {}]]
  /\ deleted = {}
  /\ th = NoThreads
  /\ crashed = FALSE
  /\ \E i \in Instances, f \in Filenames :
       fn = [instance |-> i, filename |-> f, random_number |-> 0, result |-> <<>>]

GenerateImageFilename ==
  /\ fn.result = <<>>
  /\ \E r \in randint(1000, 9999) :
       fn' = [fn EXCEPT !.random_number = r,
                        !.result = generate_image_filename(fn.instance, fn.filename, r)]
  /\ UNCHANGED <<bucket, files, dirs, last, deleted, th, crashed>>

NextFilename == GenerateImageFilename

SpecFilename == InitFilename /\ [][NextFilename]_vars

(***************************************************************************)
(* Properties of the calls made one after the other (Spec).                *)
(***************************************************************************)
IsUrlFor(ret, k) ==
  Len(ret) = 4 /\ ret[1] = "url" /\ ret[2] = s3_bucket_name /\ ret[3] = k

\* C1: get_url of a key the bucket holds returns a non-empty URL signed for
\* the bucket name and the key when the backend serves the requests; get_url
\* of a key the bucket does not hold returns None and raises nothing whenever
\* the backend answers the probe.
C1_GetUrlPresentAbsent ==
  last.op = "get_url" =>
    LET k == last.args[1]
    IN /\ (k \in last.pre.bucket /\ \A i \in DOMAIN last.calls : last.calls[i].out = "ok")
            => last.exc = NoExc /\ last.ret # NoReturn /\ IsUrlFor(last.ret, k)
       /\ (k \notin last.pre.bucket /\ last.calls[1].out # "unreachable")
            => last.exc = NoExc /\ last.ret = PyNone

\* C1 witness: a get_url of a held key has returned its URL.
C1_Witness ==
  /\ last.op = "get_url"
  /\ last.args[1] \in last.pre.bucket
  /\ IsUrlFor(last.ret, last.args[1])

\* The parent directory of f holds nothing once f is taken out of world w.
LeftEmpty(w, f) ==
  \A p \in (w.files \ {f}) \cup w.dirs : Len(p) = 0 \/ dirname(p) # dirname(f)

\* C2: an upload of the single key k whose staging file exists, once it has
\* returned True, leaves k in the bucket and the staging file gone; the
\* file's parent directory is gone if and only if the removal left it empty,
\* and every other staging file and directory is where it was.
C2_SingleUpload ==
  (/\ last.op = "upload" /\ Len(last.args) = 1
   /\ file_direct(last.args[1]) \in last.pre.files
   /\ last.ret = PyTrue) =>
    LET k == last.args[1]
        f == file_direct(k)
    IN /\ k \in bucket
       /\ bucket = last.pre.bucket \cup {k}
       /\ f \notin files
       /\ files = last.pre.files \ {f}
       /\ dirname(f) \notin dirs <=> LeftEmpty(last.pre, f)
       /\ dirs \ {dirname(f)} = last.pre.dirs \ {dirname(f)}

\* C2 witness: such an upload has returned True and taken the emptied parent
\* directory away.
C2_Witness ==
  /\ last.op = "upload" /\ Len(last.args) = 1
  /\ file_direct(last.args[1]) \in last.pre.files
  /\ last.ret = PyTrue
  /\ dirname(file_direct(last.args[1])) \notin dirs

C4_DeleteThenProbe ==
  (/\ last.op = "get_url"
   /\ last.args[1] \in deleted
   /\ last.calls[1].out # "unreachable") =>
    last.ret = PyNone /\ last.exc = NoExc

\* C4 witness: a get_url of a deleted key has returned None on a 404.
C4_Witness ==
  /\ last.op = "get_url"
  /\ last.args[1] \in deleted
  /\ last.calls[1].out = "404"
  /\ last.ret = PyNone

\* C5 as stated: a delete of a key the bucket does not hold raises ValueError
\* "Delete Error: ..." and does not return True.
C5_DeleteMissingRaises ==
  (/\ last.op = "delete" /\ last.args # <<>>
   /\ last.args[1] \notin last.pre.bucket) =>
    /\ last.ret # PyTrue
    /\ last.exc # NoExc
    /\ last.exc[1] = [type |-> "ValueError", msg |-> "Delete Error"]

\* C5 amended: a delete of a key the bucket does not hold leaves the bucket
\* as it was; it returns True when the delete_object request is served, and
\* raises ValueError "Delete Error: ..." with the request's error as cause
\* exactly when the request itself fails.
C5_DeleteMissingIdempotent ==
  (/\ last.op = "delete" /\ last.args # <<>>
   /\ last.args[1] \notin last.pre.bucket) =>
    /\ bucket = last.pre.bucket
    /\ Len(last.calls) = 1
    /\ last.calls[1].fn = "delete_object"
    /\ last.calls[1].key = last.args[1]
    /\ IF last.calls[1].out = "ok"
       THEN last.ret = PyTrue /\ last.exc = NoExc
       ELSE /\ last.ret = NoReturn
            /\ last.exc = ValueError("Delete Error", SdkError(last.calls[1].out))

\* C5 witness: a delete of a key the bucket does not hold has returned True.
C5_Witness ==
  /\ last.op = "delete" /\ last.args # <<>>
  /\ last.args[1] \notin last.pre.bucket
  /\ last.ret = PyTrue

\* C6 as stated: get_url returns None only when the head_object probe fails
\* with not-found, and every other failure of a request raises.
C6_NoneOnlyForNotFound ==
  last.op = "get_url" =>
    /\ last.ret = PyNone => last.calls[Len(last.calls)].out = "404"
    /\ (\E i \in DOMAIN last.calls : last.calls[i].out \notin {"ok", "404"})
         => last.exc # NoExc

Unhindered(t) ==
  th[t].exc = NoExc
    \/ th[t].exc[Len(th[t].exc)].type \notin {"ClientError", "EndpointConnectionError", "PermissionError"}

\* C7 as stated: two upload calls on distinct keys whose staging files both
\* exist, interleaved in any way and met by no outside error, both return
\* True, both objects are in the bucket and both staging files are gone.
C7_ConcurrentUploadsIndependent ==
  (/\ ~crashed
   /\ \A t \in Threads : th[t].pc = "done" /\ th[t].staged /\ Unhindered(t)) =>
    \A t \in Threads :
      /\ th[t].ret = PyTrue
      /\ th[t].exc = NoExc
      /\ th[t].path \in bucket
      /\ file_direct(th[t].path) \notin files

\* C10: no step takes a staging file away unless its key is in the bucket;
\* an upload_file that fails ends the call with the staging area and the
\* bucket as they were; and whenever the process has crashed with a call
\* between upload_file and os.remove, that call's object is in the bucket
\* and its staging file still on disk.
C10_NoDataLoss ==
  [][/\ \A k \in Keys :
          (file_direct(k) \in files /\ file_direct(k) \notin files') => k \in bucket
     /\ \A t \in Threads :
          (th[t].pc = "upload_file" /\ th'[t].pc = "done") =>
             /\ th'[t].exc # NoExc
             /\ files' = files /\ dirs' = dirs /\ bucket' = bucket
     /\ crashed' =>
          \A t \in Threads :
            th'[t].pc = "remove" =>
               /\ th'[t].path \in bucket'
               /\ file_direct(th'[t].path) \in files'
               /\ dirname(file_direct(th'[t].path)) \in dirs'
    ]_vars

\* C10 witness: the process has crashed between a call's upload_file and its
\* os.remove, while the other call had already removed its own staging file.
C10_Witness ==
  /\ crashed
  /\ \E t \in Threads, u \in Threads :
       /\ th[t].pc = "remove"
       /\ th[t].path \in bucket
       /\ file_direct(th[t].path) \in files
       /\ th[u].pc \in {"exists", "listdir", "rmtree", "done"}
       /\ th[u].ret # PyTrue => th[u].exc = NoExc
       /\ th[u].path \in bucket
       /\ th[u].path # <<>>
       /\ file_direct(th[u].path) \notin files

(***************************************************************************)
(* Properties of generate_image_filename (SpecFilename).                   *)
(***************************************************************************)
\* The segments of a path: what lies between its slashes.
RECURSIVE Segments(_)
Segments(s) ==
  IF \A i \in DOMAIN s : s[i] # "/" THEN <<s>>
  ELSE LET i == CHOOSE j \in DOMAIN s : s[j] = "/" /\ \A h \in 1..(j - 1) : s[h] # "/"
       IN <<SubSeq(s, 1, i - 1)>> \o Segments(SubSeq(s, i + 1, Len(s)))

\* What follows the last dot of a filename (all of it when it has no dot).
OriginalExt(f) ==
  IF \A i \in DOMAIN f : f[i] # "." THEN f
  ELSE LET i == CHOOSE j \in DOMAIN f : f[j] = "." /\ \A h \in (j + 1)..Len(f) : f[h] # "."
       IN SubSeq(f, i + 1, Len(f))

\* An extension sanitized: the spaces at its end dropped, every other space
\* an underscore, every other character outside [A-Za-z0-9._-] left out.
RECURSIVE SanitizedExt(_)
SanitizedExt(e) ==
  IF e = <<>> THEN <<>>
  ELSE IF \A i \in DOMAIN e : e[i] = " " THEN <<>>
  ELSE (IF Head(e) = " " THEN <<"_">>
        ELSE IF Head(e) \in ValidChars THEN <<Head(e)>>
        ELSE <<>>) \o SanitizedExt(Tail(e))

\* The result has the shape <class>/<timestamp>/<timestamp>-<r>.<ext> for
\* the extension ext: three segments, the instance's class name, a timestamp
\* of digits and hyphens, and a last segment made of that timestamp, a
\* hyphen, the four digits of r in 1000..9999, a dot and ext, with no
\* character outside [A-Za-z0-9._-].
HasShape(ext) ==
  LET seg == Segments(fn.result)
  IN /\ Len(seg) = 3
     /\ seg[1] = fn.instance.class_name
     /\ seg[2] # <<>>
     /\ \A i \in DOMAIN seg[2] : seg[2][i] \in DigitChars \cup {"-"}
     /\ fn.random_number \in 1000..9999
     /\ Len(str(fn.random_number)) = 4
     /\ seg[3] = seg[2] \o <<"-">> \o str(fn.random_number) \o <<".">> \o ext
     /\ \A i \in DOMAIN seg[3] : seg[3][i] \in ValidChars

\* C8 as stated, for the filenames that hold a dot: the result has the shape
\* with the original filename's extension, the text after its last dot.
C8_ShapeOriginalExt ==
  (fn.result # <<>> /\ \E i \in DOMAIN fn.filename : fn.filename[i] = ".")
    => HasShape(OriginalExt(fn.filename))

\* C8 amended: the result has the shape with the original filename's
\* extension sanitized.
C8_ShapeSanitizedExt ==
  fn.result # <<>> => HasShape(SanitizedExt(OriginalExt(fn.filename)))

\* C8 witness: a filename with a dot and an extension that sanitization
\* changes has been given its path.
C8_Witness ==
  /\ fn.result # <<>>
  /\ \E i \in DOMAIN fn.filename : fn.filename[i] = "."
  /\ SanitizedExt(OriginalExt(fn.filename)) # <<>>
  /\ SanitizedExt(OriginalExt(fn.filename)) # OriginalExt(fn.filename)
  /\ HasShape(SanitizedExt(OriginalExt(fn.filename)))

====
